---------------------------- MODULE Spec2Model ----------------------------
(***************************************************************************)
(* Model of the currency-ratio resolver and invoice aggregation of         *)
(* slip39/invoice/artifact.py.                                             *)
(*                                                                         *)
(* A conversions dict { (a,b): ratio-or-None } is a sequence of entries    *)
(* [k |-> <<a,b>>, r |-> ratio] in insertion order (a Python dict iterates *)
(* in insertion order, and the deduction pass depends on that order).      *)
(* A ratio is an exact non-negative rational <<n,d>> in lowest terms       *)
(* (fractions.Fraction); None is <<0,0>>.                                  *)
(***************************************************************************)
EXTENDS Integers, Sequences, FiniteSets, TLC

VARIABLES
    conversions,    \* the dict conversions_remaining mutates in place
    given,          \* the dict as the caller first supplied it
    result,         \* outcome of the last conversions_remaining call
    branch,         \* the part of conversions_remaining that produced it
    verify,         \* the verify argument of the last call
    report,         \* <<remains, resolved>> named by the last failure message
    trues,          \* number of calls that returned True so far
    pc,             \* where Invoice.__init__ stands ("caller": no Invoice)
    lineSymbols,    \* Invoice.__init__: line_symbols
    currencies,     \* Invoice.__init__: currencies
    candidates,     \* Invoice.__init__: the candidates of the current stall
    ci,             \* index in candidates of the next one to query
    requested,      \* Invoice.__init__: the currencies argument, as symbols
    accounts,       \* Invoice.__init__: the symbols of the accounts argument
    currencies_account, \* Invoice.__init__: symbol -> index of its account
    lines,          \* Invoice.lines: the LineItems
    net,            \* what LineItem.net() last returned
    rowIter,        \* frame of one Invoice.__iter__ generator: i, tot, tax
    rows,           \* the rows that generator has yielded so far
    pageArgs,       \* the arguments page, rows of Invoice.pages
    pager,          \* frame of one Invoice.pages generator: page_i, page_l
    yielded,        \* the pages that generator has yielded so far
    seen,           \* conversions of the Invoices built before, as each ended
    rowIter2,       \* frame of a second Invoice.__iter__ generator
    rows2,          \* the rows the second generator has yielded so far
    tables          \* what Invoice.tables has yielded: a record per page

vars == <<conversions, given, result, branch, verify, report, trues,
          pc, lineSymbols, currencies, candidates, ci,
          requested, accounts, currencies_account,
          lines, net, rowIter, rows, pageArgs, pager, yielded,
          seen, rowIter2, rows2, tables>>

invoiceVars == <<pc, lineSymbols, currencies, candidates, ci>>

accountVars == <<requested, accounts, currencies_account>>

renderVars == <<lines, net, rowIter, rows, pageArgs, pager, yielded>>

otherVars == <<seen, rowIter2, rows2, tables>>

---------------------------------------------------------------------------
(* Bounds of the model *)

\* longest caller-supplied mapping drawn by Init
MaxGiven == 3

\* cap on the number of True results followed in one behaviour
MaxTrues == 7

\* most line-item symbols, and most target currencies, of an Invoice
MaxSide == 2

\* longest conversions dict a caller hands to Invoice
MaxInvGiven == 0

\* most accounts a caller hands to Invoice
MaxAccounts == 2

\* most LineItems of an Invoice that is iterated
MaxLines == 3

\* most rows per page asked of Invoice.pages
MaxPageRows == 3

\* most LineItems of an Invoice that is constructed and then iterated
MaxBuiltLines == 2

---------------------------------------------------------------------------
(* Exact rationals: fractions.Fraction *)

None == <<0, 0>>
Zero == <<0, 1>>
One  == <<1, 1>>
Half == <<1, 2>>
Two  == <<2, 1>>

IsNone(r) == r[2] = 0

\* Python truthiness of a ratio: None and 0 are falsy
Truthy(r) == r[2] # 0 /\ r[1] # 0

RECURSIVE GCD(_, _)
GCD(a, b) == IF b = 0 THEN a ELSE GCD(b, a % b)

Norm(n, d) == LET g == GCD(n, d) IN <<n \div g, d \div g>>

\* r * r2
RatMul(x, y) == Norm(x[1] * y[1], x[2] * y[2])

RatInv_Same(x) == x

\* 1 / r, for r # 0
RatInv(x) == <<x[2], x[1]>>

---------------------------------------------------------------------------
(* dict operations *)

Keys(c) == {c[i].k : i \in 1..Len(c)}

Has(c, key) == \E i \in 1..Len(c) : c[i].k = key

\* conversions.get( key ): None when the key is absent
Get(c, key) ==
    LET at == {i \in 1..Len(c) : c[i].k = key}
    IN  IF at = {} THEN None ELSE c[CHOOSE i \in at : TRUE].r

\* conversions[key] = v: in place when present, appended when new
Put(c, key, v) ==
    LET at == {i \in 1..Len(c) : c[i].k = key}
    IN  IF at = {} THEN Append(c, [k |-> key, r |-> v])
        ELSE [c EXCEPT ![CHOOSE i \in at : TRUE] = [k |-> key, r |-> v]]

Rev(key) == <<key[2], key[1]>>

Known(c, key) == Has(c, key) /\ ~IsNone(Get(c, key))

Unknowns(c) == {c[i].k : i \in {j \in 1..Len(c) : IsNone(c[j].r)}}

---------------------------------------------------------------------------
(* conversions_remaining: the single-hop pass *)

InvertGuard_Overwrite(c, e) == Truthy(e.r)

InvertGuard_Never(c, e) == FALSE

InvertGuard_NotNone(c, e) == ~IsNone(e.r) /\ IsNone(Get(c, Rev(e.k)))

\* line 148: if r and conversions.get( (b,a) ) is None
InvertGuard(c, e) == Truthy(e.r) /\ IsNone(Get(c, Rev(e.k)))

ComposeGuard_SkipZero(c, e, e2) ==
    /\ Truthy(e2.r)
    /\ e.k[2] = e2.k[1]
    /\ e.k[1] # e2.k[2]
    /\ IsNone(Get(c, <<e.k[1], e2.k[2]>>))

ComposeGuard_Overwrite(c, e, e2) ==
    /\ ~IsNone(e2.r)
    /\ e.k[2] = e2.k[1]
    /\ e.k[1] # e2.k[2]

\* lines 155-157: r2 is not None, b == a2, a != b2, (a,b2) is None
ComposeGuard(c, e, e2) ==
    /\ ~IsNone(e2.r)
    /\ e.k[2] = e2.k[1]
    /\ e.k[1] # e2.k[2]
    /\ IsNone(Get(c, <<e.k[1], e2.k[2]>>))

Composed_Typo(r, r2) == RatMul(r2, r2)

\* line 159: r * r2
Composed(r, r2) == RatMul(r, r2)

ComposeMarks_Forgotten(upd) == upd

\* line 161: updated = True after a composition
ComposeMarks(upd) == TRUE

RECURSIVE ComposeLoop(_, _, _, _, _)
\* lines 154-161: the inner loop over list( conversions.items() ) for (a,b),r
ComposeLoop(c, items2, j, e, upd) ==
    IF j > Len(items2) THEN [c |-> c, updated |-> upd, err |-> "none"]
    ELSE IF ComposeGuard(c, e, items2[j])
         THEN ComposeLoop(Put(c, <<e.k[1], items2[j].k[2]>>, Composed(e.r, items2[j].r)),
                          items2, j + 1, e, ComposeMarks(upd))
         ELSE ComposeLoop(c, items2, j + 1, e, upd)

InvertMarks_Forgotten(upd) == upd

\* line 151: updated = True after an inversion
InvertMarks(upd) == TRUE

SkipEntry_Falsy(r) == ~Truthy(r)

\* lines 152-153: if r is None: continue
SkipEntry(r) == IsNone(r)

UpdatedInit_True == TRUE

\* line 145: updated = False
UpdatedInit == FALSE

RECURSIVE SinglePass(_, _, _, _)
\* lines 147-161: the outer loop over the snapshot list( conversions.items() )
SinglePass(c, items, i, upd) ==
    IF i > Len(items) THEN [c |-> c, updated |-> upd, err |-> "none"]
    ELSE LET e    == items[i]
             inv  == InvertGuard(c, e)
             c1   == IF inv THEN Put(c, Rev(e.k), RatInv(e.r)) ELSE c
             upd1 == IF inv THEN InvertMarks(upd) ELSE upd
         IN  IF inv /\ e.r[1] = 0
             THEN [c |-> c, updated |-> upd, err |-> "ZeroDivisionError"]
             ELSE IF SkipEntry(e.r) THEN SinglePass(c1, items, i + 1, upd1)
             ELSE LET res == ComposeLoop(c1, c1, 1, e, upd1)
                  IN  SinglePass(res.c, items, i + 1, res.updated)

---------------------------------------------------------------------------
(* conversions_remaining: the two-hop search *)

\* lines 166-168: the indices of the pairs (a,b) that are None
UnknownAt(c) == {i \in 1..Len(c) : IsNone(c[i].r)}

\* line 170: c2 with a truthy ratio that holds a
HoldsTruthy(c, j, s) == Truthy(c[j].r) /\ s \in {c[j].k[1], c[j].k[2]}

\* line 172: c3 # c2 truthy holding b, and c2, c3 share a symbol
TwoHopHit(c, i, j, l) ==
    /\ HoldsTruthy(c, j, c[i].k[1])
    /\ c[j].k # c[l].k
    /\ HoldsTruthy(c, l, c[i].k[2])
    /\ {c[j].k[1], c[j].k[2]} \cap {c[l].k[1], c[l].k[2]} # {}

TwoHopHits(c) ==
    {t \in UnknownAt(c) \X (1..Len(c)) \X (1..Len(c)) : TwoHopHit(c, t[1], t[2], t[3])}

\* the first hit in the order of the three nested loops
FirstHit(c) ==
    CHOOSE t \in TwoHopHits(c) :
        \A u \in TwoHopHits(c) :
            \/ t[1] < u[1]
            \/ t[1] = u[1] /\ t[2] < u[2]
            \/ t[1] = u[1] /\ t[2] = u[2] /\ t[3] <= u[3]

\* lines 176-180: x, = x_s; (a,b) = (a,x) * (b,x); (b,a) = 1 / (a,b); return True
TwoHop(c) ==
    LET t   == FirstHit(c)
        a   == c[t[1]].k[1]
        b   == c[t[1]].k[2]
        x_s == {c[t[2]].k[1], c[t[2]].k[2]} \cap {c[t[3]].k[1], c[t[3]].k[2]}
        x   == CHOOSE s \in x_s : TRUE
        ab  == RatMul(Get(c, <<a, x>>), Get(c, <<b, x>>))
        c1  == Put(c, <<a, b>>, ab)
    IN  IF Cardinality(x_s) # 1 THEN [c |-> c, err |-> "ValueError"]
        ELSE IF ~Has(c, <<a, x>>) \/ ~Has(c, <<b, x>>) THEN [c |-> c, err |-> "KeyError"]
        ELSE IF IsNone(Get(c, <<a, x>>)) \/ IsNone(Get(c, <<b, x>>))
             THEN [c |-> c, err |-> "TypeError"]
        ELSE IF ab[1] = 0 THEN [c |-> c1, err |-> "ZeroDivisionError"]
        ELSE [c |-> Put(c1, <<b, a>>, RatInv(ab)), err |-> "none"]

---------------------------------------------------------------------------
(* conversions_remaining: the whole call *)

Remains_Nothing(c) == {}

\* line 185: the pairs still None
Remains(c) == Unknowns(c)

Resolved_AllKnown(c) == {c[i].k : i \in {j \in 1..Len(c) : ~IsNone(c[j].r)}}

Resolved_Truthy(c) == {c[i].k : i \in {j \in 1..Len(c) : Truthy(c[j].r)}}

\* line 188: the pairs with r and r > 1
Resolved(c) == {c[i].k : i \in {j \in 1..Len(c) : c[j].r[2] # 0 /\ c[j].r[1] > c[j].r[2]}}

\* lines 145-180: the deductions of one call, which do not depend on verify
Deduce(c) ==
    LET p == SinglePass(c, c, 1, UpdatedInit) IN
    IF p.err # "none" THEN [c |-> p.c, result |-> p.err, branch |-> "single"]
    ELSE IF p.updated THEN [c |-> p.c, result |-> "True", branch |-> "single"]
    ELSE IF TwoHopHits(p.c) # {}
    THEN LET h == TwoHop(p.c) IN
         [c |-> h.c, result |-> IF h.err = "none" THEN "True" ELSE h.err,
          branch |-> "twohop"]
    ELSE [c |-> p.c, result |-> "nothing", branch |-> "none"]

\* lines 185-193: with nothing deduced, False, or the message raised or returned
Outcome(d, v) ==
    IF d.result # "nothing"
    THEN [c |-> d.c, result |-> d.result, branch |-> d.branch, report |-> <<{}, {}>>]
    ELSE IF Remains(d.c) = {}
    THEN [c |-> d.c, result |-> "False", branch |-> "done", report |-> <<{}, {}>>]
    ELSE [c |-> d.c, result |-> IF v THEN "RuntimeError" ELSE "msg",
          branch |-> "blocked", report |-> <<Remains(d.c), Resolved(d.c)>>]

\* lines 126-193: the mapping, result and report of one call
ConversionsRemaining(c, v) == Outcome(Deduce(c), v)

\* truth value of a returned result, as `while conversions_remaining( c )` tests
\* it: True (lines 163, 180) and the message, a non-empty string (line 193)
ResultTruthy(res) == res \in {"True", "msg"}

---------------------------------------------------------------------------
(* A caller of conversions_remaining: any sequence of calls on one dict *)

Symbols == {"BTC", "ETH", "USD"}

Pairs(S) == {p \in S \X S : p[1] # p[2]}

GivenRatios == {None, Zero, Half, Two}

Entries == [k : Pairs(Symbols), r : GivenRatios]

DistinctKeys(c) == \A i, j \in 1..Len(c) : i # j => c[i].k # c[j].k

\* every dict of at most MaxGiven entries over Symbols, in every insertion order
\* conversions_remaining only compares symbols for equality, so the first key
\* is fixed: every other dict over Symbols is a renaming of one of these
Mappings ==
    UNION {{c \in [1..n -> Entries] : DistinctKeys(c) /\ c[1].k = <<"BTC", "ETH">>}
           : n \in 1..MaxGiven}

Entry(a, b, r) == [k |-> <<a, b>>, r |-> r]

\* artifact_test.py c1, c_w_doge, c_bad, c_zero with small exact ratios
C1Map == <<Entry("ETH", "USD", Two), Entry("BTC", "USD", <<6, 1>>),
           Entry("BTC", "ETH", None)>>
CWDoge == C1Map \o <<Entry("DOGE", "BTC", Half), Entry("DOGE", "USD", None)>>
CBad == C1Map \o <<Entry("DOGE", "USD", None)>>
CZero == C1Map \o <<Entry("WEENUS", "ETH", Zero), Entry("ZEENUS", "ETH", Zero),
                    Entry("ZEENUS", "WEENUS", None)>>

Scenarios == {C1Map, CWDoge, CBad, CZero}

\* keys of currencies_account: the Invoice symbols and their tokens
AccountKeys == {"BTC", "ETH", "USDC", "WBTC", "WETH"}

\* currencies_account has no such key
Absent == -1

\* line 312: currencies_account[c] = None, a currency without an account
NoAccount == 0

NoBindings == [c \in AccountKeys |-> Absent]

\* no generator of the Invoice has been created
NoFrame == [state |-> "none"]

\* nothing of the Invoice is being rendered
\* no Invoice built before, no second generator, no tables
NoOthers ==
    /\ seen = <<>>
    /\ rowIter2 = NoFrame
    /\ rows2 = <<>>
    /\ tables = <<>>

NoRendering ==
    /\ NoOthers
    /\ lines = <<>>
    /\ net = <<>>
    /\ rowIter = NoFrame
    /\ rows = <<>>
    /\ pageArgs = <<>>
    /\ pager = NoFrame
    /\ yielded = <<>>

SymbolsOf(c) == UNION {{c[i].k[1], c[i].k[2]} : i \in 1..Len(c)}

\* worth of one unit of a symbol, in some common unit
Worths == {0, 1, 2, 3, 4, 6}

\* the given ratios are mutually consistent: each known (a,b) is worth(a) / worth(b)
Consistent(g) ==
    \E w \in [SymbolsOf(g) -> Worths] :
        \A i \in 1..Len(g) :
            ~IsNone(g[i].r) =>
                /\ w[g[i].k[2]] > 0
                /\ g[i].r[1] * w[g[i].k[2]] = g[i].r[2] * w[g[i].k[1]]

Init ==
    /\ given \in Mappings \cup Scenarios
    /\ conversions = given
    /\ result = "none"
    /\ branch = "none"
    /\ verify = FALSE
    /\ report = <<{}, {}>>
    /\ trues = 0
    /\ pc = "caller"
    /\ lineSymbols = {}
    /\ currencies = {}
    /\ candidates = <<>>
    /\ ci = 0
    /\ NoRendering
    /\ requested = {}
    /\ accounts = <<>>
    /\ currencies_account = NoBindings

\* one call conversions_remaining( conversions, verify=v ), for either verify
Call ==
    /\ trues < MaxTrues
    /\ LET d == Deduce(conversions) IN
       \E v \in BOOLEAN :
          LET out == Outcome(d, v) IN
          /\ conversions' = out.c
          /\ result' = out.result
          /\ branch' = out.branch
          /\ report' = out.report
          /\ trues' = IF out.result = "True" THEN trues + 1 ELSE trues
          /\ verify' = v
    /\ UNCHANGED otherVars
    /\ UNCHANGED <<given, invoiceVars, accountVars, renderVars>>

Next == Call

Spec == Init /\ [][Next]_vars

---------------------------------------------------------------------------
(* A caller whose dict has a key pairing a symbol with itself *)

SelfEntries == [k : Symbols \X Symbols, r : GivenRatios]

\* every dict of at most MaxGiven entries whose first key is a symbol paired
\* with itself
SelfMappings ==
    UNION {{c \in [1..n -> SelfEntries] : DistinctKeys(c) /\ c[1].k = <<"BTC", "BTC">>}
           : n \in 1..MaxGiven}

InitSelf ==
    /\ given \in SelfMappings
    /\ conversions = given
    /\ result = "none"
    /\ branch = "none"
    /\ verify = FALSE
    /\ report = <<{}, {}>>
    /\ trues = 0
    /\ pc = "caller"
    /\ lineSymbols = {}
    /\ currencies = {}
    /\ candidates = <<>>
    /\ ci = 0
    /\ NoRendering
    /\ requested = {}
    /\ accounts = <<>>
    /\ currencies_account = NoBindings

SpecSelf == InitSelf /\ [][Next]_vars

---------------------------------------------------------------------------
(* Invoice.__init__: seeding the conversions and the Resolver loop *)

InvSymbols == {"BTC", "ETH", "USDC"}

\* the price oracle quotes in ETH (lines 379-382)
QuoteSymbol == "ETH"

\* the token the oracle prices for a currency: BTC is priced by its proxy WBTC
ProxySymbol(c) == IF c = "BTC" THEN "WBTC" ELSE c

OracleRatios == {Zero, Two}

\* tokenprices( c ): failure, or (one, two, ratio) with two the quote currency
OracleAnswers(c) ==
    {[ok |-> FALSE, one |-> c, ratio |-> None]}
    \cup [ok : {TRUE}, one : {c, ProxySymbol(c)}, ratio : OracleRatios]

Sides == {S \in SUBSET InvSymbols : S # {} /\ Cardinality(S) <= MaxSide}

InvEntries == [k : Pairs(InvSymbols), r : {None, Zero, Two}]

\* the conversions argument: None (an empty dict) or a small dict
InvGivens ==
    UNION {{c \in [1..n -> InvEntries] : DistinctKeys(c)} : n \in 0..MaxInvGiven}

\* the orders in which a set may be iterated
Orders(S) == {o \in [1..Cardinality(S) -> S] : \A i, j \in 1..Cardinality(S) : i # j => o[i] # o[j]}

SeedLoop_Nothing(c, ls, cs, i, j) == c

RECURSIVE SeedLoop_Overwrite(_, _, _, _, _)
SeedLoop_Overwrite(c, ls, cs, i, j) ==
    IF i > Len(ls) THEN c
    ELSE IF j > Len(cs) THEN SeedLoop_Overwrite(c, ls, cs, i + 1, 1)
    ELSE IF ls[i] # cs[j]
         THEN SeedLoop_Overwrite(Put(c, <<ls[i], cs[j]>>, None), ls, cs, i, j + 1)
         ELSE SeedLoop_Overwrite(c, ls, cs, i, j + 1)

RECURSIVE SeedLoop(_, _, _, _, _)
\* lines 356-359: for ls: for c: if ls != c: conversions.setdefault( (ls,c), None )
SeedLoop(c, ls, cs, i, j) ==
    IF i > Len(ls) THEN c
    ELSE IF j > Len(cs) THEN SeedLoop(c, ls, cs, i + 1, 1)
    ELSE IF ls[i] # cs[j] /\ ~Has(c, <<ls[i], cs[j]>>)
         THEN SeedLoop(Put(c, <<ls[i], cs[j]>>, None), ls, cs, i, j + 1)
         ELSE SeedLoop(c, ls, cs, i, j + 1)

RECURSIVE Flatten_Falsy(_, _)
Flatten_Falsy(c, i) ==
    IF i > Len(c) THEN <<>>
    ELSE IF ~Truthy(c[i].r) THEN <<c[i].k[1], c[i].k[2]>> \o Flatten_Falsy(c, i + 1)
    ELSE Flatten_Falsy(c, i + 1)

RECURSIVE Flatten(_, _)
\* line 385: sum( ( pair for pair,ratio in conversions.items() if ratio is None ), () )
Flatten(c, i) ==
    IF i > Len(c) THEN <<>>
    ELSE IF IsNone(c[i].r) THEN <<c[i].k[1], c[i].k[2]>> \o Flatten(c, i + 1)
    ELSE Flatten(c, i + 1)

\* lines 383-386: the symbols of the unknown pairs, without ETH
Candidates(c) == SelectSeq(Flatten(c, 1), LAMBDA x : x # "ETH")

QuoteIsNew_Always(c, sym, one) == TRUE

\* line 393: (c,two) is None or (one,two) is None
QuoteIsNew(c, sym, one) ==
    IsNone(Get(c, <<sym, QuoteSymbol>>)) \/ IsNone(Get(c, <<one, QuoteSymbol>>))

InsertQuote_WithInverse(c, sym, one, ratio) ==
    Put(Put(c, <<sym, QuoteSymbol>>, ratio), <<QuoteSymbol, sym>>, ratio)

\* lines 397-399: conversions[c,two] = ratio; if c != one: conversions[one,two] = ratio
InsertQuote(c, sym, one, ratio) ==
    LET c1 == Put(c, <<sym, QuoteSymbol>>, ratio)
    IN  IF sym # one THEN Put(c1, <<one, QuoteSymbol>>, ratio) ELSE c1

\* the conversions the tests hand to Invoice, over these symbols: ETH/USDC
\* alone, and with BTC/ETH
InvScenarios ==
    { <<Entry("ETH", "USDC", Two)>>,
      <<Entry("ETH", "USDC", Two), Entry("BTC", "ETH", Two)>> }

Exhausted_AtOnce(cands, i) == TRUE

\* lines 387, 400-401: the for loop has no candidate left, its else clause raises
Exhausted(cands, i) == i = Len(cands)

InitInvoice ==
    /\ given \in InvGivens \cup InvScenarios
    /\ conversions = given
    /\ lineSymbols \in Sides
    /\ currencies \in Sides
    /\ pc = "seed"
    /\ result = "none"
    /\ branch = "none"
    /\ verify = FALSE
    /\ report = <<{}, {}>>
    /\ trues = 0
    /\ candidates = <<>>
    /\ ci = 0
    /\ NoRendering
    /\ requested = {}
    /\ accounts = <<>>
    /\ currencies_account = NoBindings

\* lines 345-359: seed (ls,c) -> None for every line symbol and target currency
Seed ==
    /\ pc = "seed"
    /\ \E ls \in Orders(lineSymbols), cs \in Orders(currencies) :
          conversions' = SeedLoop(conversions, ls, cs, 1, 1)
    /\ pc' = "resolve"
    /\ UNCHANGED otherVars
    /\ UNCHANGED <<given, result, branch, verify, report, trues,
                   lineSymbols, currencies, candidates, ci, accountVars,
                   renderVars>>

\* lines 374 and 403: one call conversions_remaining( conversions ) of the
\* while loops; on the message, lines 378-386 start a stall with its candidates
Resolve ==
    /\ pc = "resolve"
    /\ LET out == ConversionsRemaining(conversions, FALSE) IN
       /\ conversions' = out.c
       /\ result' = out.result
       /\ branch' = out.branch
       /\ report' = out.report
       /\ pc' = IF out.result = "True" THEN "resolve"
                ELSE IF out.result = "False" THEN "done"
                ELSE IF out.result = "msg" THEN "query"
                ELSE "raised"
       /\ candidates' = IF out.result = "msg" THEN Candidates(out.c) ELSE <<>>
       /\ ci' = IF out.result = "msg" THEN 1 ELSE 0
    /\ UNCHANGED otherVars
    /\ UNCHANGED <<given, verify, trues, lineSymbols, currencies, accountVars,
                   renderVars>>

\* lines 387-402: the oracle is asked for the next candidate; a quote that brings
\* something new is inserted and ends the stall (its candidates are not read
\* again), a failure or a stale quote moves on, and running out of candidates
\* raises
Query ==
    /\ pc = "query"
    /\ \E ans \in OracleAnswers(candidates[ci]) :
          IF ans.ok /\ QuoteIsNew(conversions, candidates[ci], ans.one)
          THEN /\ conversions' = InsertQuote(conversions, candidates[ci], ans.one, ans.ratio)
               /\ pc' = "resolve"
               /\ candidates' = <<>>
               /\ ci' = 0
          ELSE /\ conversions' = conversions
               /\ pc' = IF Exhausted(candidates, ci) THEN "raised" ELSE "query"
               /\ candidates' = candidates
               /\ ci' = ci + 1
    /\ UNCHANGED otherVars
    /\ UNCHANGED <<given, result, branch, verify, report, trues,
                   lineSymbols, currencies, accountVars, renderVars>>

NextInvoice == Seed \/ Resolve \/ Query

SpecInvoice == InitInvoice /\ [][NextInvoice]_vars

---------------------------------------------------------------------------
(* Invoice.__init__ from its start: currencies, accounts and token proxies *)

\* the cryptocurrencies the supplied accounts are for
AcctSymbols == {"BTC", "ETH"}

\* the accounts argument: a sequence of accounts, each known by its symbol
AccountSeqs == UNION {[1..n -> AcctSymbols] : n \in 0..MaxAccounts}

\* tokeninfo( c ).symbol: the ERC-20 token standing for a currency
\* (lines 290-291: USD(USDC), BTC(WBTC), ETH(WETH))
TokenSymbol(c) == IF c = "ETH" THEN "WETH" ELSE ProxySymbol(c)

\* line 312: { c: None for c in currencies }
RequestedOnly(req) == [k \in AccountKeys |-> IF k \in req THEN NoAccount ELSE Absent]

DuplicateCheck_Off(ca, sym) == FALSE

\* line 315: assert currencies_account.get( a.symbol ) is None
DuplicateCheck(ca, sym) == ca[sym] \notin {Absent, NoAccount}

RECURSIVE AccountLoop(_, _, _)
\* lines 313-317: for a in accounts: assert ...; currencies_account[a.symbol] = a
AccountLoop(ca, accts, i) ==
    IF i > Len(accts) THEN [ca |-> ca, err |-> "none"]
    ELSE IF DuplicateCheck(ca, accts[i]) THEN [ca |-> ca, err |-> "AssertionError"]
    ELSE AccountLoop([ca EXCEPT ![accts[i]] = i], accts, i + 1)

\* the keys currencies_account holds: line 318, 339 set( currencies_account )
BoundKeys(ca) == {k \in AccountKeys : ca[k] # Absent}

\* lines 325-334: every currency's token is bound to the ETH account, if any
ProxyBind(ca) ==
    IF ca["ETH"] \in {Absent, NoAccount} THEN ca
    ELSE [k \in AccountKeys |->
            IF k \in {TokenSymbol(c) : c \in BoundKeys(ca)} THEN ca["ETH"] ELSE ca[k]]

RECURSIVE FullGiven(_, _)
\* a caller's conversions giving the ratio of the line currency s to every other
\* symbol of a set, so that the prices of the Invoice are static (as the tests
\* do, lines 320-329)
FullGiven(s, others) ==
    IF others = {} THEN <<>>
    ELSE LET x == CHOOSE y \in others : TRUE
         IN  <<Entry(s, x, Two)>> \o FullGiven(s, others \ {x})

InitAccounts ==
    /\ \E s \in InvSymbols :
          /\ lineSymbols = {s}
          /\ given = FullGiven(s, AccountKeys \ {s})
    /\ conversions = given
    /\ requested \in Sides
    /\ currencies = requested
    /\ accounts \in AccountSeqs
    /\ currencies_account = NoBindings
    /\ pc = "accounts"
    /\ result = "none"
    /\ branch = "none"
    /\ verify = FALSE
    /\ report = <<{}, {}>>
    /\ trues = 0
    /\ candidates = <<>>
    /\ ci = 0
    /\ NoRendering

\* lines 293-339: bind the accounts, failing on a duplicate, then the tokens
Accounts ==
    /\ pc = "accounts"
    /\ LET b == AccountLoop(RequestedOnly(requested), accounts, 1) IN
       IF b.err # "none"
       THEN /\ pc' = "duplicate"
            /\ currencies_account' = b.ca
            /\ currencies' = currencies
       ELSE /\ pc' = "seed"
            /\ currencies_account' = ProxyBind(b.ca)
            /\ currencies' = BoundKeys(ProxyBind(b.ca))
    /\ UNCHANGED otherVars
    /\ UNCHANGED <<conversions, given, result, branch, verify, report, trues,
                   lineSymbols, candidates, ci, requested, accounts, renderVars>>

NextAccounts == Accounts \/ Seed \/ Resolve

SpecAccounts == InitAccounts /\ [][NextAccounts]_vars

---------------------------------------------------------------------------
(* LineItem.net *)

RatAdd(x, y) == Norm(x[1] * y[2] + y[1] * x[2], x[2] * y[2])

RatSub(x, y) == Norm(x[1] * y[2] - y[1] * x[2], x[2] * y[2])

\* x / y, for y > 0
RatDiv(x, y) == Norm(x[1] * y[2], x[2] * y[1])

RatLess(x, y) == x[1] * y[2] < y[1] * x[2]

RatInt(n) == <<n, 1>>

RECURSIVE Pow10(_)
Pow10(n) == IF n = 0 THEN 1 ELSE 10 * Pow10(n - 1)

\* round( x, nd ): to nd decimals, a tie going to the even neighbour
RoundTo(x, nd) ==
    LET num  == x[1] * Pow10(nd)
        q    == num \div x[2]
        rem2 == 2 * (num - q * x[2])
        up   == rem2 > x[2] \/ (rem2 = x[2] /\ q % 2 = 1)
    IN  Norm(IF up THEN q + 1 ELSE q, Pow10(nd))

\* LineItem.decimals = None
NoDecimals == -1

Bases == { [units |-> 4, price |-> RatInt(25)],
           [units |-> 1, price |-> <<5, 2>>],
           [units |-> 1, price |-> RatInt(-3)] }

TaxRates == {None, Zero, <<1, 20>>, One, <<21, 20>>}

\* the LineItems: units, price, tax, decimals, currency
LineItems ==
    { [units |-> b.units, price |-> b.price, tax |-> t, decimals |-> d, currency |-> c] :
        b \in Bases, t \in TaxRates, d \in {NoDecimals, 0}, c \in InvSymbols }

\* line 94: taxes = amount * self.tax
TaxAdded(amount, tax) == RatMul(amount, tax)

TaxIncluded_Times(amount, tax) == RatSub(RatMul(amount, tax), amount)

\* line 98: taxes = amount - amount / self.tax
TaxIncluded(amount, tax) == RatSub(amount, RatDiv(amount, tax))

\* lines 93, 97: the percentage shown, round( float( ... * 100 ), 2 )
Percent(t) == RoundTo(RatMul(t, RatInt(100)), 2)

\* lines 82-100: amount, taxes, taxinf
Net(l) ==
    LET amount == RatMul(RatInt(l.units), l.price) IN
    IF ~Truthy(l.tax)
    THEN [amount |-> amount, taxes |-> Zero, taxinf |-> <<"no tax">>]
    ELSE IF RatLess(l.tax, One)
    THEN [amount |-> RatAdd(amount, TaxAdded(amount, l.tax)),
          taxes  |-> TaxAdded(amount, l.tax),
          taxinf |-> <<Percent(l.tax), "% added">>]
    ELSE IF RatLess(One, l.tax)
    THEN [amount |-> amount,
          taxes  |-> TaxIncluded(amount, l.tax),
          taxinf |-> <<Percent(RatSub(l.tax, One)), "% incl.">>]
    ELSE [amount |-> amount, taxes |-> Zero, taxinf |-> <<"no tax">>]

\* the state of the other parts of the model while only an Invoice is rendered
Idle ==
    /\ NoOthers
    /\ given = <<>>
    /\ result = "none"
    /\ branch = "none"
    /\ verify = FALSE
    /\ report = <<{}, {}>>
    /\ trues = 0
    /\ candidates = <<>>
    /\ ci = 0
    /\ requested = {}
    /\ accounts = <<>>
    /\ currencies_account = NoBindings

InitNet ==
    /\ Idle
    /\ pc = "lineitem"
    /\ conversions = <<>>
    /\ lineSymbols = {}
    /\ currencies = {}
    /\ \E l \in LineItems : lines = <<l>>
    /\ net = <<>>
    /\ rowIter = NoFrame
    /\ rows = <<>>
    /\ pageArgs = <<>>
    /\ pager = NoFrame
    /\ yielded = <<>>

\* one call line.net()
CallNet ==
    /\ pc = "lineitem"
    /\ net = <<>>
    /\ net' = <<Net(lines[1])>>
    /\ UNCHANGED otherVars
    /\ UNCHANGED <<conversions, given, result, branch, verify, report, trues,
                   invoiceVars, accountVars, lines, rowIter, rows, pageArgs,
                   pager, yielded>>

NextNet == CallNet

SpecNet == InitNet /\ [][NextNet]_vars

---------------------------------------------------------------------------
(* Invoice.__iter__: the rows of a constructed Invoice *)

\* the LineItems Invoices are made of here: tax added, included and absent,
\* amounts that round, a refund
Catalogue ==
    { [units |-> 4, price |-> RatInt(25), tax |-> <<1, 20>>, decimals |-> NoDecimals, currency |-> "USDC"],
      [units |-> 1, price |-> <<5, 2>>, tax |-> None, decimals |-> 0, currency |-> "BTC"],
      [units |-> 4, price |-> RatInt(25), tax |-> <<1, 20>>, decimals |-> NoDecimals, currency |-> "ETH"],
      [units |-> 1, price |-> RatInt(-3), tax |-> None, decimals |-> NoDecimals, currency |-> "USDC"],
      [units |-> 4, price |-> RatInt(25), tax |-> <<21, 20>>, decimals |-> NoDecimals, currency |-> "BTC"],
      [units |-> 1, price |-> <<5, 2>>, tax |-> <<1, 20>>, decimals |-> 0, currency |-> "ETH"] }

LineSeqs == UNION {[1..n -> Catalogue] : n \in 0..MaxLines}

\* Invoice.currencies of the constructed Invoices
RowCurrencies == { {"USDC"}, {"BTC", "USDC"}, {"ETH", "USDC", "WBTC"} }

\* what one unit of each symbol is worth; a token is worth what it stands for
Worth(x) ==
    CASE x \in {"BTC", "WBTC"} -> 6
      [] x \in {"ETH", "WETH"} -> 3
      [] OTHER -> 1

RECURSIVE AsMapping(_)
\* a dict holding the ratio of every pair of a set of pairs
AsMapping(ps) ==
    IF ps = {} THEN <<>>
    ELSE LET p == CHOOSE q \in ps : TRUE
         IN  <<Entry(p[1], p[2], Norm(Worth(p[1]), Worth(p[2])))>> \o AsMapping(ps \ {p})

\* Invoice.conversions after a construction that resolved every pair
ResolvedConversions == AsMapping(Pairs(AccountKeys))

\* tokeninfo( c ).decimals
TokenDecimals(x) ==
    CASE x = "WBTC" -> 8
      [] x = "WETH" -> 18
      [] OTHER -> 6

\* line 467: line_curr.decimals // 3 if line.decimals is None else line.decimals
LineDecimals(l) ==
    IF l.decimals = NoDecimals THEN TokenDecimals(TokenSymbol(l.currency)) \div 3
    ELSE l.decimals

ReadRatio_One(c, sym, cur) == One

\* lines 477-478: self.conversions[line_curr.symbol,c]
ReadRatio(c, sym, cur) == Get(c, <<sym, cur>>)

Accumulate_Replace(t, x) == x

\* lines 474-478: tot[c] += ...
Accumulate(t, x) == RatAdd(t, x)

\* lines 473-478: what a line adds to the running value of currency cur
Contribution(c, sym, cur, x) ==
    IF sym = cur THEN x ELSE RatMul(x, ReadRatio(c, sym, cur))

FreshFrame_Carried(curs) ==
    [state |-> "running", i |-> 0,
     tot |-> [c \in curs |-> One], tax |-> [c \in curs |-> Zero]]

\* lines 455-460: tot = { c: 0. ... }, tax = { c: 0. ... }; the first line is next
FreshFrame(curs) ==
    [state |-> "running", i |-> 0,
     tot |-> [c \in curs |-> Zero], tax |-> [c \in curs |-> Zero]]

RowIndex_One(i) == i + 1

\* line 481: i, the LineItem #, from enumerate( self.lines )
RowIndex(i) == i

\* lines 461-498: the body of the loop for line number f.i: the frame after
\* it, the row it yields, or the exception of a ratio that is missing or None
RowStep(f, ls, curs, c) ==
    LET l        == ls[f.i + 1]
        n        == Net(l)
        sym      == TokenSymbol(l.currency)
        decimals == LineDecimals(l)
        amount   == RoundTo(n.amount, decimals)
        taxes    == RoundTo(n.taxes, decimals)
        tot      == [x \in curs |-> Accumulate(f.tot[x], Contribution(c, sym, x, amount))]
        tax      == [x \in curs |-> Accumulate(f.tax[x], Contribution(c, sym, x, taxes))]
    IN  IF \E x \in curs : x # sym /\ ~Has(c, <<sym, x>>)
        THEN [err |-> "KeyError", frame |-> [state |-> "raised"], row |-> <<>>]
        ELSE IF \E x \in curs : x # sym /\ IsNone(Get(c, <<sym, x>>))
        THEN [err |-> "TypeError", frame |-> [state |-> "raised"], row |-> <<>>]
        ELSE [err |-> "none",
              frame |-> [state |-> "running", i |-> f.i + 1, tot |-> tot, tax |-> tax],
              row |-> [i |-> RowIndex(f.i), line |-> l, taxinf |-> n.taxinf,
                       taxes |-> taxes, net |-> RatSub(amount, taxes),
                       amount |-> amount, symbol |-> sym, decimals |-> decimals,
                       tot |-> tot, tax |-> tax]]

\* next( generator ) on a frame: the frame after it and the row, if one is yielded
Advance(f, ls, curs, c) ==
    IF f.i >= Len(ls)
    THEN [err |-> "StopIteration", frame |-> [state |-> "done"], row |-> <<>>]
    ELSE RowStep(f, ls, curs, c)

InitRows ==
    /\ Idle
    /\ pc = "constructed"
    /\ conversions = ResolvedConversions
    /\ lineSymbols = {}
    /\ currencies \in RowCurrencies
    /\ lines \in LineSeqs
    /\ net = <<>>
    /\ rowIter = NoFrame
    /\ rows = <<>>
    /\ pageArgs = <<>>
    /\ pager = NoFrame
    /\ yielded = <<>>

\* iter( invoice ): a new generator, whatever became of the one before
Iter ==
    /\ pc = "constructed"
    /\ rowIter.state \in {"none", "done", "closed", "raised"}
    /\ pager = NoFrame
    /\ rowIter' = FreshFrame(currencies)
    /\ rows' = <<>>
    /\ UNCHANGED otherVars
    /\ UNCHANGED <<conversions, given, result, branch, verify, report, trues,
                   invoiceVars, accountVars, lines, net, pageArgs, pager, yielded>>

\* next() on the generator: the next row, or its end
NextRow ==
    /\ pc = "constructed"
    /\ rowIter.state = "running"
    /\ pager = NoFrame
    /\ LET a == Advance(rowIter, lines, currencies, conversions) IN
       /\ rowIter' = a.frame
       /\ rows' = IF a.err = "none" THEN Append(rows, a.row) ELSE rows
    /\ UNCHANGED otherVars
    /\ UNCHANGED <<conversions, given, result, branch, verify, report, trues,
                   invoiceVars, accountVars, lines, net, pageArgs, pager, yielded>>

\* the consumer stops early and drops the generator
Abandon ==
    /\ pc = "constructed"
    /\ rowIter.state = "running"
    /\ pager = NoFrame
    /\ rowIter' = [state |-> "closed"]
    /\ UNCHANGED otherVars
    /\ UNCHANGED <<conversions, given, result, branch, verify, report, trues,
                   invoiceVars, accountVars, lines, net, rows, pageArgs, pager,
                   yielded>>

NextRows == Iter \/ NextRow \/ Abandon

SpecRows == InitRows /\ [][NextRows]_vars

---------------------------------------------------------------------------
(* Invoice.pages: the rows in pages, all of them or those a filter selects *)

\* the LineItems of the Invoices that are paginated
PageCatalogue ==
    { l \in Catalogue :
        \/ l.currency = "USDC" /\ l.units = 4
        \/ l.currency = "BTC" /\ l.decimals = 0
        \/ l.currency = "ETH" /\ l.decimals = 0 }

PageLineSeqs == UNION {[1..n -> PageCatalogue] : n \in 0..MaxLines}

\* page: None, a zero-based page number, or something with __contains__
NoFilter == [kind |-> "none", index |-> 0, among |-> {}]
PageFilters ==
    {NoFilter}
    \cup {[kind |-> "index", index |-> k, among |-> {}] : k \in 0..1}
    \cup {[kind |-> "contains", index |-> 0, among |-> S] : S \in { {}, {1}, {0, 2} }}

\* rows: the rows per page the caller asks for
PageRows == 0..MaxPageRows

PageMatch_All(page, i) == TRUE

\* lines 512-517: page_match
PageMatch(page, i) ==
    CASE page.kind = "none" -> TRUE
      [] page.kind = "contains" -> i \in page.among
      [] OTHER -> i = page.index

PageFull_Over(page_l, n) == Len(page_l) > n

\* line 521: if len( page_l ) >= rows
PageFull(page_l, n) == Len(page_l) >= n

\* line 519: page_i,page_l = 0,[]; nothing run yet
FreshPager == [state |-> "start", page_i |-> 0, page_l |-> <<>>]

RECURSIVE PageLoop(_, _, _, _)

\* lines 521-527 for the outcome a of drawing the next row: a page to yield, the
\* end, or on to the next row
PageStep(p, a, rs, args) ==
    IF a.err = "StopIteration"
    THEN IF p.page_l # <<>> /\ PageMatch(args.page, p.page_i)
         THEN [pager |-> [p EXCEPT !.state = "last"], iter |-> a.frame,
               rows |-> rs, out |-> <<p.page_l>>]
         ELSE [pager |-> [p EXCEPT !.state = "done"], iter |-> a.frame,
               rows |-> rs, out |-> <<>>]
    ELSE IF a.err # "none"
    THEN [pager |-> [p EXCEPT !.state = "raised"], iter |-> a.frame,
          rows |-> rs, out |-> <<>>]
    ELSE IF PageFull(Append(p.page_l, a.row), args.rows)
    THEN IF PageMatch(args.page, p.page_i)
         THEN [pager |-> [state |-> "yielded", page_i |-> p.page_i,
                          page_l |-> Append(p.page_l, a.row)],
               iter |-> a.frame, rows |-> Append(rs, a.row),
               out |-> <<Append(p.page_l, a.row)>>]
         ELSE PageLoop([p EXCEPT !.page_i = p.page_i + 1, !.page_l = <<>>],
                       a.frame, Append(rs, a.row), args)
    ELSE PageLoop([p EXCEPT !.page_l = Append(p.page_l, a.row)],
                  a.frame, Append(rs, a.row), args)

\* lines 520-527 from the head of the for loop, with the generator frame g of
\* iter( self ) and the rows rs it has yielded: on to the next yield or the end
PageLoop(p, g, rs, args) ==
    PageStep(p, Advance(g, lines, currencies, conversions), rs, args)

\* next() on the generator of pages(): resumed where it was suspended
Resume(p, g, rs, args) ==
    CASE p.state = "start" -> PageLoop(p, g, rs, args)
      [] p.state = "yielded" ->
            PageLoop([state |-> "running", page_i |-> p.page_i + 1, page_l |-> <<>>],
                     g, rs, args)
      [] OTHER -> [pager |-> [p EXCEPT !.state = "done"], iter |-> g,
                   rows |-> rs, out |-> <<>>]

RECURSIVE AllRows(_)
\* list( iter( self ) ) from generator frame g on
AllRows(g) ==
    LET a == Advance(g, lines, currencies, conversions) IN
    IF a.err = "none" THEN <<a.row>> \o AllRows(a.frame) ELSE <<>>

InitPages ==
    /\ Idle
    /\ pc = "constructed"
    /\ conversions = ResolvedConversions
    /\ lineSymbols = {}
    /\ currencies \in RowCurrencies
    /\ lines \in PageLineSeqs
    /\ net = <<>>
    /\ rowIter = NoFrame
    /\ rows = <<>>
    /\ pageArgs = <<>>
    /\ pager = NoFrame
    /\ yielded = <<>>

\* invoice.pages( page, rows ): the generator, not yet run
Pages ==
    /\ pc = "constructed"
    /\ pager = NoFrame
    /\ \E page \in PageFilters, n \in PageRows :
          pageArgs' = [page |-> page, rows |-> n]
    /\ pager' = FreshPager
    /\ rowIter' = FreshFrame(currencies)
    /\ rows' = <<>>
    /\ yielded' = <<>>
    /\ UNCHANGED otherVars
    /\ UNCHANGED <<conversions, given, result, branch, verify, report, trues,
                   invoiceVars, accountVars, lines, net>>

\* next() on the generator of pages(): the next page, or its end
NextPage ==
    /\ pc = "constructed"
    /\ pager # NoFrame
    /\ pager.state \in {"start", "yielded", "last"}
    /\ LET a == Resume(pager, rowIter, rows, pageArgs) IN
       /\ pager' = a.pager
       /\ rowIter' = a.iter
       /\ rows' = a.rows
       /\ yielded' = yielded \o a.out
    /\ UNCHANGED otherVars
    /\ UNCHANGED <<conversions, given, result, branch, verify, report, trues,
                   invoiceVars, accountVars, lines, net, pageArgs>>

NextPages == Pages \/ NextPage

SpecPages == InitPages /\ [][NextPages]_vars

---------------------------------------------------------------------------
(* An Invoice from its LineItems: constructed, then iterated *)

\* cryptocurrency_symbol( name ), lines 196-206: a supported Cryptocurrency
\* keeps its own symbol, anything else is known by its token's
CryptoSymbol(c) == IF c \in AcctSymbols THEN c ELSE TokenSymbol(c)

\* lines 351-354: line_symbols
LineSymbols(ls) == {CryptoSymbol(ls[k].currency) : k \in 1..Len(ls)}

BuiltLineSeqs == UNION {[1..n -> PageCatalogue] : n \in 1..MaxBuiltLines}

\* the target currencies of the Invoices constructed
BuiltCurrencies == { {"USDC"}, {"BTC"}, {"BTC", "USDC"}, {"ETH", "USDC"} }

\* the conversions argument: nothing, the tests' static prices (ETH/USDC, with
\* BTC/ETH, and those for the tokens WETH and WBTC as well), or a price of
\* Bitcoin in USDC or in ETH
BuiltGivens ==
    {<<>>} \cup InvScenarios
    \cup { <<Entry("BTC", "USDC", Two)>>, <<Entry("BTC", "ETH", Two)>>,
           <<Entry("ETH", "USDC", Two), Entry("WETH", "USDC", Two),
             Entry("BTC", "ETH", Two), Entry("BTC", "WETH", Two),
             Entry("WBTC", "ETH", Two), Entry("WBTC", "WETH", Two)>> }

InitBuilt ==
    /\ NoOthers
    /\ given \in BuiltGivens
    /\ conversions = given
    /\ lines \in BuiltLineSeqs
    /\ lineSymbols = LineSymbols(lines)
    /\ currencies \in BuiltCurrencies
    /\ pc = "seed"
    /\ result = "none"
    /\ branch = "none"
    /\ verify = FALSE
    /\ report = <<{}, {}>>
    /\ trues = 0
    /\ candidates = <<>>
    /\ ci = 0
    /\ requested = {}
    /\ accounts = <<>>
    /\ currencies_account = NoBindings
    /\ net = <<>>
    /\ rowIter = NoFrame
    /\ rows = <<>>
    /\ pageArgs = <<>>
    /\ pager = NoFrame
    /\ yielded = <<>>

\* lines 407-410: self.currencies, self.conversions, ... = the locals; __init__
\* returns
Finish ==
    /\ pc = "done"
    /\ pc' = "constructed"
    /\ UNCHANGED otherVars
    /\ UNCHANGED <<conversions, given, result, branch, verify, report, trues,
                   lineSymbols, currencies, candidates, ci, accountVars,
                   renderVars>>

NextBuilt == Seed \/ Resolve \/ Query \/ Finish \/ Iter \/ NextRow \/ Abandon

SpecBuilt == InitBuilt /\ [][NextBuilt]_vars

---------------------------------------------------------------------------
(* Two Invoices constructed from one caller mapping *)

\* lines 345-346, 410: a dict the caller passes is not copied: the caller's
\* object, the local conversions and self.conversions are one dict
CallerMapping == conversions

InitShared ==
    /\ InitInvoice
    /\ given \in InvScenarios

\* the caller constructs a second Invoice, handing it the same dict again; the
\* first Invoice keeps the dict as its self.conversions
Again ==
    /\ pc = "done"
    /\ seen = <<>>
    /\ seen' = <<conversions>>
    /\ \E ls \in Sides, cs \in Sides :
          /\ lineSymbols' = ls
          /\ currencies' = cs
    /\ pc' = "seed"
    /\ UNCHANGED <<conversions, given, result, branch, verify, report, trues,
                   candidates, ci, accountVars, renderVars, rowIter2, rows2,
                   tables>>

NextShared == Seed \/ Resolve \/ Query \/ Again

SpecShared == InitShared /\ [][NextShared]_vars

---------------------------------------------------------------------------
(* Two generators of Invoice.__iter__ over one Invoice *)

InitTwo ==
    /\ InitRows
    /\ lines \in PageLineSeqs

\* iter( invoice ) a second time, while the first generator is where it is
Iter2 ==
    /\ pc = "constructed"
    /\ rowIter2.state \in {"none", "done", "raised"}
    /\ rowIter2' = FreshFrame(currencies)
    /\ rows2' = <<>>
    /\ UNCHANGED <<conversions, given, result, branch, verify, report, trues,
                   invoiceVars, accountVars, renderVars, seen, tables>>

\* next() on the second generator
NextRow2 ==
    /\ pc = "constructed"
    /\ rowIter2.state = "running"
    /\ LET a == Advance(rowIter2, lines, currencies, conversions) IN
       /\ rowIter2' = a.frame
       /\ rows2' = IF a.err = "none" THEN Append(rows2, a.row) ELSE rows2
    /\ UNCHANGED <<conversions, given, result, branch, verify, report, trues,
                   invoiceVars, accountVars, renderVars, seen, tables>>

NextTwo == Iter \/ NextRow \/ Abandon \/ Iter2 \/ NextRow2

SpecTwo == InitTwo /\ [][NextTwo]_vars

---------------------------------------------------------------------------
(* Invoice.headers and the tuple a row is yielded as *)

\* the symbols in the order sorted() puts their names in
Alphabet == <<"BTC", "ETH", "USD", "USDC", "WBTC", "WETH">>

\* sorted( self.currencies )
Sorted(S) == SelectSeq(Alphabet, LAMBDA x : x \in S)

\* a column name: a fixed one, or f"{name} {currency}"
Header(name, c) == <<name, c>>

\* lines 416-429: the thirteen fixed names
FixedHeaders ==
    <<Header("_#", ""), Header("Description", ""), Header("Units", ""),
      Header("Price", ""), Header("_Tax", ""), Header("Tax %", ""),
      Header("Taxes", ""), Header("Net", ""), Header("Amount", ""),
      Header("Currency", ""), Header("_Symbol", ""), Header("_Decimals", ""),
      Header("_Token", "")>>

\* lines 412-435: Invoice.headers
Headers(curs) ==
    FixedHeaders
    \o [j \in 1..Len(Sorted(curs)) |-> Header("_Total", Sorted(curs)[j])]
    \o [j \in 1..Len(Sorted(curs)) |-> Header("_Taxes", Sorted(curs)[j])]

RunningFields_Reversed(v, curs) ==
    [j \in 1..Len(Sorted(curs)) |-> v[Sorted(curs)[Len(Sorted(curs)) + 1 - j]]]

\* lines 494-498: tuple( tot[c] for c in sorted( self.currencies ) )
RunningFields(v, curs) ==
    [j \in 1..Len(Sorted(curs)) |-> v[Sorted(curs)[j]]]

\* lines 480-498: the tuple yielded for a row
RowTuple(r, curs) ==
    <<r.i, "description", r.line.units, r.line.price, r.line.tax, r.taxinf,
      r.taxes, r.net, r.amount, r.line.currency, r.symbol, r.decimals,
      [symbol |-> r.symbol, decimals |-> TokenDecimals(r.symbol)]>>
    \o RunningFields(r.tot, curs)
    \o RunningFields(r.tax, curs)

---------------------------------------------------------------------------
(* Invoice.tables: per page, the sub-totals and totals of every currency *)

\* line 236: decimals = 24 for a known core Cryptocurrency
KnownDecimals == 24

\* lines 600-604: deci( c )
Deci(c) ==
    IF c \in AcctSymbols THEN KnownDecimals \div 3 ELSE TokenDecimals(c) \div 3

RECURSIVE Drain(_, _, _, _)

\* the pages from the outcome a of one next() on, to the end of the generator
DrainFrom(a, args) ==
    IF a.pager.state \in {"done", "raised"} THEN a.out
    ELSE a.out \o Drain(a.pager, a.iter, a.rows, args)

\* line 575: list( self.pages( *args, **kwds ) )
Drain(p, g, rs, args) == DrainFrom(Resume(p, g, rs, args), args)

\* page[-1]
LastRow(page) == page[Len(page)]

\* lines 584-664: page_prev is set to None before the loop and assigned nowhere
\* in it
PagePrevAfter(page_prev, page) == page_prev

\* lines 612-626: the row of currency c in the sub-total table; the three
\* account columns are part of the first-page alternative only
SubRow(page, page_prev, c) ==
    IF page_prev = <<>>
    THEN [cols  |-> 5,
          taxes |-> RoundTo(LastRow(page).tax[c], Deci(c)),
          total |-> RoundTo(LastRow(page).tot[c], Deci(c))]
    ELSE [cols  |-> 2,
          taxes |-> RoundTo(RatSub(LastRow(page).tax[c], LastRow(page_prev).tax[c]), Deci(c)),
          total |-> RoundTo(RatSub(LastRow(page).tot[c], LastRow(page_prev).tot[c]), Deci(c))]

\* lines 643-649: the row of currency c in the total table
TotalRow(page, c) ==
    [cols  |-> 5,
     taxes |-> RoundTo(LastRow(page).tax[c], Deci(c)),
     total |-> RoundTo(LastRow(page).tot[c], Deci(c))]

RECURSIVE TableLoop(_, _, _)
\* lines 585-664: for p,page in enumerate( pages ): yield page, table, subtotal, total
TableLoop(pages, p, page_prev) ==
    IF p > Len(pages) THEN <<>>
    ELSE <<[page  |-> pages[p],
            first |-> page_prev = <<>>,
            final |-> p = Len(pages),
            sub   |-> [c \in currencies |-> SubRow(pages[p], page_prev, c)],
            total |-> [c \in currencies |-> TotalRow(pages[p], c)]]>>
         \o TableLoop(pages, p + 1, PagePrevAfter(page_prev, pages[p]))

\* Invoice.currencies of the Invoices tabulated: USDC, or WBTC, asked for with
\* an Ethereum account, which brings in ETH and its token (lines 313-339)
TableCurrencies == { {"ETH", "USDC", "WETH"}, {"ETH", "WBTC", "WETH"} }

\* their LineItems: in BTC and in ETH, of a few units each
TableLineSeqs ==
    UNION {[1..n -> {l \in PageCatalogue : l.currency # "USDC"}] : n \in 0..MaxLines}

InitTables ==
    /\ NoOthers
    /\ given = <<>>
    /\ result = "none"
    /\ branch = "none"
    /\ verify = FALSE
    /\ report = <<{}, {}>>
    /\ trues = 0
    /\ candidates = <<>>
    /\ ci = 0
    /\ requested = {}
    /\ accounts = <<"ETH">>
    /\ currencies \in TableCurrencies
    /\ currencies_account = [k \in AccountKeys |-> IF k \in currencies THEN 1 ELSE Absent]
    /\ pc = "constructed"
    /\ conversions = ResolvedConversions
    /\ lineSymbols = {}
    /\ lines \in TableLineSeqs
    /\ net = <<>>
    /\ rowIter = NoFrame
    /\ rows = <<>>
    /\ pageArgs = <<>>
    /\ pager = NoFrame
    /\ yielded = <<>>

\* list( invoice.tables( page=..., rows=... ) ): the pages are collected, the
\* greatest _Decimals is taken (ValueError of max() when there is no row), and
\* every page is tabulated
Tables ==
    /\ pc = "constructed"
    /\ pager = NoFrame
    /\ \E page \in PageFilters, n \in PageRows :
          LET args  == [page |-> page, rows |-> n]
              pages == Drain(FreshPager, FreshFrame(currencies), <<>>, args)
          IN  /\ pageArgs' = args
              /\ yielded' = pages
              /\ IF pages = <<>>
                 THEN /\ pager' = [state |-> "ValueError"]
                      /\ tables' = <<>>
                 ELSE /\ pager' = [state |-> "done"]
                      /\ tables' = TableLoop(pages, 1, <<>>)
    /\ UNCHANGED <<conversions, given, result, branch, verify, report, trues,
                   invoiceVars, accountVars, lines, net, rowIter, rows, seen,
                   rowIter2, rows2>>

NextTables == Tables

SpecTables == InitTables /\ [][NextTables]_vars

---------------------------------------------------------------------------
(* Properties of the deduction pass *)

\* the last call reported no change: False, the message, or the raise
Stopped == result \in {"False", "msg", "RuntimeError"}

\* the known entries of c that chain: (a,b) and (b,c) known with a # c
Chains(c) ==
    {t \in (1..Len(c)) \X (1..Len(c)) :
        /\ ~IsNone(c[t[1]].r)
        /\ ~IsNone(c[t[2]].r)
        /\ c[t[1]].k[2] = c[t[2]].k[1]
        /\ c[t[1]].k[1] # c[t[2]].k[2]}

Through(c, t) == <<c[t[1]].k[1], c[t[2]].k[2]>>

\* C1: inversion law.  From a mutually consistent mapping, once a call reports
\* no change, every known non-zero (a,b) has (b,a) known, and (a,b) * (b,a) = 1.
C1_InversionLaw ==
    (Stopped /\ Consistent(given)) =>
        \A i \in 1..Len(conversions) :
            Truthy(conversions[i].r) =>
                /\ Known(conversions, Rev(conversions[i].k))
                /\ RatMul(conversions[i].r, Get(conversions, Rev(conversions[i].k))) = One

\* a stopped consistent mapping in which a reverse pair the caller never gave is known
C1_Witness ==
    /\ Stopped /\ Consistent(given)
    /\ \E i \in 1..Len(given) :
          /\ Truthy(given[i].r)
          /\ given[i].r # One
          /\ ~Has(given, Rev(given[i].k))
          /\ Known(conversions, Rev(given[i].k))

\* C2: composition law.  From a mutually consistent mapping, once a call reports
\* no change, (a,b) and (b,c) known with a # c give (a,c) known = (a,b) * (b,c).
C2_CompositionLaw ==
    (Stopped /\ Consistent(given)) =>
        \A t \in Chains(conversions) :
            /\ Known(conversions, Through(conversions, t))
            /\ Get(conversions, Through(conversions, t))
                  = RatMul(conversions[t[1]].r, conversions[t[2]].r)

\* a stopped consistent mapping holding a composed pair the caller never gave
C2_Witness ==
    /\ Stopped /\ Consistent(given)
    /\ \E t \in Chains(given) :
          /\ ~Has(given, Through(given, t))
          /\ Truthy(given[t[1]].r) /\ given[t[2]].r = Two
          /\ Known(conversions, Through(given, t))

\* C3: single-pass completeness.  One call leaves (b,a) known for every (a,b)
\* known and non-zero at its start, and (a,c) known for every (a,b), (b,c)
\* with a # c both known at its start.
C3_SinglePassComplete ==
    [][ /\ \A i \in 1..Len(conversions) :
              Truthy(conversions[i].r) => Known(conversions', Rev(conversions[i].k))
        /\ \A t \in Chains(conversions) :
              Known(conversions', Through(conversions, t)) ]_vars

\* after the first call, an inverse and a composition of given ratios are both new
C3_Witness ==
    /\ trues = 1 /\ result = "True"
    /\ \E i \in 1..Len(given) :
          Truthy(given[i].r) /\ ~Known(given, Rev(given[i].k))
    /\ \E t \in Chains(given) :
          ~Known(given, Through(given, t)) /\ Known(conversions, Through(given, t))

\* C4: a call returns True iff it changed the mapping; a call that returns
\* False or the message, or raises, leaves the mapping as it found it.
C4_ChangedIffModified ==
    [][ (result' = "True") <=> (conversions' # conversions) ]_vars

\* a call that changed the mapping, followed by one that did not
C4_Witness ==
    /\ trues >= 1 /\ Stopped
    /\ conversions # given

\* C5: the number of True results of repeated calls is at most the number of
\* ordered pairs over the symbols of the initial mapping.
C5_TruesBounded ==
    trues <= Cardinality(Pairs(SymbolsOf(given)))

\* a loop that took two True results before it stopped
C5_Witness ==
    trues >= 2 /\ Stopped

\* C7: idempotence.  After a call returned False, every further call returns
\* False and leaves the mapping unchanged.
C7_Idempotent ==
    [][ result = "False" => (result' = "False" /\ conversions' = conversions) ]_vars

\* a further call made after False was returned following real deductions
C7_Witness ==
    /\ result = "False" /\ trues >= 1
    /\ verify
    /\ \E i \in 1..Len(given) : IsNone(given[i].r)

\* C8 as stated: (a,b) = 0 and (b,c) known with a # c give (a,c) = 0 once
\* deduction has stopped, from any mapping.
C8_ZeroPropagation_Any ==
    Stopped =>
        \A t \in Chains(conversions) :
            conversions[t[1]].r = Zero =>
                /\ Known(conversions, Through(conversions, t))
                /\ Get(conversions, Through(conversions, t)) = Zero

\* C8 amended: from a mutually consistent mapping, (a,b) = 0 and (b,c) known
\* with a # c give (a,c) known and equal to 0 once deduction has stopped.
C8_ZeroPropagation ==
    (Stopped /\ Consistent(given)) =>
        \A t \in Chains(conversions) :
            conversions[t[1]].r = Zero =>
                /\ Known(conversions, Through(conversions, t))
                /\ Get(conversions, Through(conversions, t)) = Zero

\* a stopped consistent mapping where a zero ratio was composed into a new pair
C8_Witness ==
    /\ Stopped /\ Consistent(given)
    /\ \E t \in Chains(given) :
          /\ given[t[1]].r = Zero
          /\ ~Known(given, Through(given, t))
          /\ Get(conversions, Through(given, t)) = Zero

\* (b,a) is the product of two known ratios (b,x) * (x,a)
ViaComposition(c, key) ==
    \E t \in Chains(c) :
        /\ Through(c, t) = key
        /\ Get(c, key) = RatMul(c[t[1]].r, c[t[2]].r)

\* C9: division guard.  No call raises a division by zero, and the reverse of
\* a pair whose ratio is 0 only ever gets a value by composition, never by
\* inverting the zero.
C9_DivisionGuard ==
    [][ /\ result' # "ZeroDivisionError"
        /\ \A i \in 1..Len(conversions) :
              ( /\ conversions[i].r = Zero
                /\ ~Known(conversions, Rev(conversions[i].k))
                /\ Known(conversions', Rev(conversions[i].k)) )
              => ViaComposition(conversions', Rev(conversions[i].k)) ]_vars

\* a call was made on a mapping holding a zero ratio whose reverse is requested
C9_Witness ==
    /\ result # "none"
    /\ \E i \in 1..Len(conversions) :
          /\ conversions[i].r = Zero
          /\ Has(conversions, Rev(conversions[i].k))
          /\ ~Known(conversions, Rev(conversions[i].k))

\* C10: from the zero-token mapping of the tests, the loop of verify calls
\* never raises and ends with no pair unknown, ZEENUS/WEENUS and
\* WEENUS/ZEENUS both having values.
C10_ZeroScenarioResolves ==
    given = CZero =>
        /\ result # "RuntimeError"
        /\ Stopped =>
              /\ Unknowns(conversions) = {}
              /\ Known(conversions, <<"ZEENUS", "WEENUS">>)
              /\ Known(conversions, <<"WEENUS", "ZEENUS">>)

\* C11 as stated: deduction never adds a pair that was absent from the mapping.
C11_AbsentNeverPopulated ==
    [][ Keys(conversions') = Keys(conversions) ]_vars

\* C11 amended: a call assigns a ratio only to a pair whose ratio is not yet
\* known, whether present as None or absent; a known ratio is never changed
\* and no pair is removed.
C11_OnlyUnknownAssigned ==
    [][ \A i \in 1..Len(conversions) :
            /\ Has(conversions', conversions[i].k)
            /\ ~IsNone(conversions[i].r)
                  => Get(conversions', conversions[i].k) = conversions[i].r ]_vars

\* deduction added pairs the caller never put in the mapping, next to given ratios
C11_Witness ==
    /\ result = "True"
    /\ Keys(conversions) \ Keys(given) # {}
    /\ \E i \in 1..Len(given) :
          /\ Truthy(given[i].r)
          /\ ~Has(given, Rev(given[i].k))
          /\ Known(conversions, Rev(given[i].k))
          /\ Get(conversions, given[i].k) = given[i].r

\* the last call was blocked: nothing deducible, some pair unknown
Blocked == result \in {"msg", "RuntimeError"}

C13_ReportComplete ==
    Blocked =>
        /\ report[1] = Unknowns(conversions)
        /\ report[2] = {k \in Keys(conversions) : Known(conversions, k)}

\* C13 amended: a blocked call's report lists every unknown pair and, of the
\* pairs with a known ratio, exactly those whose ratio is greater than 1.
C13_ReportLargeRatios ==
    Blocked =>
        /\ report[1] = Unknowns(conversions)
        /\ report[2] = {k \in Keys(conversions) :
                           /\ Known(conversions, k)
                           /\ Get(conversions, k)[1] > Get(conversions, k)[2]}

\* a blocked report that names a large ratio and leaves out a known smaller one
C13_Witness ==
    /\ Blocked
    /\ report[2] # {}
    /\ \E k \in Keys(conversions) :
          Truthy(Get(conversions, k)) /\ k \notin report[2]

C15_OneChangedPass ==
    (given = C1Map /\ result = "False") =>
        /\ trues = 1
        /\ Get(conversions, <<"BTC", "ETH">>) = <<3, 1>>
        /\ Get(conversions, <<"ETH", "BTC">>) = <<1, 3>>

---------------------------------------------------------------------------
(* Properties of the Resolver loop of Invoice.__init__ *)

Finished == pc \in {"done", "raised"}

KnownPairs(c) == {c[i].k : i \in {j \in 1..Len(c) : ~IsNone(c[j].r)}}

\* every symbol a ratio can be known for: the Invoice's, their proxies, ETH
AllInvSymbols == InvSymbols \cup {ProxySymbol(x) : x \in InvSymbols} \cup {QuoteSymbol}

\* the pairs over AllInvSymbols with no known ratio yet
Unresolved(c) == Cardinality(Pairs(AllInvSymbols) \ KnownPairs(c))

StepsPerPair == 2 * Cardinality(Pairs(AllInvSymbols)) + 3

\* what is left to do: pairs still to resolve, then the steps of the phase
Variant ==
    Unresolved(conversions) * StepsPerPair
    + ( CASE pc = "seed"    -> StepsPerPair - 1
          [] pc = "resolve" -> StepsPerPair - 2
          [] pc = "query"   -> Len(candidates) - ci + 1
          [] OTHER          -> 0 )

\* the constructor has ended, or its next step can be taken
CanStep ==
    \/ Finished
    \/ pc \in {"seed", "resolve"}
    \/ pc = "query" /\ ci \in 1..Len(candidates)

\* C6: the Resolver loop ends for every behaviour of the oracle: each step
\* lowers a bounded natural measure and no step blocks before the end; it ends
\* with no pair unknown or by raising; and every stall that does not raise
\* inserts a ratio for at least one pair that was not known before.
C6_ResolverTerminates ==
    /\ [][Variant' < Variant]_vars
    /\ [](Variant >= 0 /\ CanStep)
    /\ [](pc = "done" => Unknowns(conversions) = {})
    /\ [][ (pc = "query" /\ pc' = "resolve")
              => KnownPairs(conversions') \ KnownPairs(conversions) # {} ]_vars

\* construction ended normally after a stall in which a quote was inserted
C6_Witness ==
    /\ pc = "done"
    /\ \E k \in KnownPairs(conversions) :
          ~Has(given, k) /\ k[2] = QuoteSymbol /\ Get(conversions, k) \in OracleRatios
    /\ Cardinality(lineSymbols \cup currencies) = 3

\* the candidates of the current stall that the oracle was already asked for
Queried == {candidates[i] : i \in 1..(ci - 1)}

\* C18: a quote that fails, or brings nothing new, makes the loop move on to
\* the next candidate of the stall; construction raises out of a stall only
\* after the last candidate, with nothing inserted in that stall.
C18_FailureNotFatal ==
    /\ [][ (pc = "query" /\ conversions' = conversions) =>
              /\ candidates' = candidates
              /\ ci' = ci + 1
              /\ pc' = IF ci < Len(candidates) THEN "query" ELSE "raised" ]_vars
    /\ [][ (pc = "query" /\ pc' = "raised") =>
              (ci = Len(candidates) /\ conversions' = conversions) ]_vars
    /\ [](pc = "query" =>
             /\ ci \in 1..Len(candidates)
             /\ ConversionsRemaining(conversions, FALSE).c = conversions)

\* the stall over candidates BTC, USDC was ended by the quote for USDC: the
\* oracle had nothing for BTC, the first candidate, and USDC was asked next
C18_Witness ==
    /\ pc = "resolve" /\ result = "msg"
    /\ conversions = <<Entry("BTC", "USDC", None), Entry("USDC", "ETH", Two)>>

\* the pairs whose entry differs between two mappings
Changed(c, d) == {k \in Keys(c) \cup Keys(d) : Has(c, k) # Has(d, k) \/ Get(c, k) # Get(d, k)}

\* C19: a stall inserts one oracle quote: the ratio of the queried candidate,
\* and of the token it is priced by, to ETH; no other pair changes and no other
\* candidate is queried in that stall; and the oracle is only queried from a
\* mapping on which conversions_remaining deduces nothing more.
C19_OneQuotePerStall ==
    /\ [][ (pc = "query" /\ conversions' # conversions) =>
              /\ pc' = "resolve"
              /\ Changed(conversions, conversions')
                    \subseteq { <<candidates[ci], QuoteSymbol>>,
                                <<ProxySymbol(candidates[ci]), QuoteSymbol>> }
              /\ \E ratio \in OracleRatios :
                    \A k \in Changed(conversions, conversions') :
                        Get(conversions', k) = ratio
              /\ Get(conversions', <<candidates[ci], QuoteSymbol>>) \in OracleRatios ]_vars
    /\ [][ (pc # "query" /\ pc' = "query") =>
              (pc = "resolve" /\ result' = "msg" /\ conversions' = conversions) ]_vars
    /\ [](pc = "query" => ConversionsRemaining(conversions, FALSE).result = "msg")

\* a second stall has begun after the quote of the first one (BTC and its
\* token WBTC, priced in ETH) was inserted and deduction came to rest again
C19_Witness ==
    /\ pc = "query"
    /\ Known(conversions, <<"BTC", QuoteSymbol>>)
    /\ Known(conversions, <<"WBTC", QuoteSymbol>>)
    /\ ~Has(given, <<"BTC", QuoteSymbol>>)
    /\ Unknowns(conversions) # {}

\* C20: within one stall the oracle is asked at most once for any candidate
\* symbol: the candidate about to be queried was not queried before in the stall.
C20_QueriedOncePerStall ==
    pc = "query" => candidates[ci] \notin Queried

\* the pairs Invoice needs: line-item symbol to a different target currency
Required == {p \in lineSymbols \X currencies : p[1] # p[2]}

\* C21: when construction returns normally, no pair of the mapping is unknown
\* and every pair of a line-item symbol and a different target currency has a
\* known ratio.
C21_AllResolvedWhenDone ==
    pc = "done" =>
        /\ Unknowns(conversions) = {}
        /\ \A p \in Required : Known(conversions, p)

\* construction returned with at least three required pairs, none of them given
C21_Witness ==
    /\ pc = "done"
    /\ Cardinality(Required) >= 3
    /\ \A p \in Required : ~Has(given, p) /\ Known(conversions, p)

\* C22: seeding leaves every required pair in the mapping, None when the
\* caller gave no entry for it and with the caller's entry unchanged otherwise;
\* it adds no other key, and so no pair (s,s).
C22_Seeding ==
    [][ pc = "seed" =>
          /\ \A p \in Required :
                /\ Has(conversions', p)
                /\ Get(conversions', p) = IF Has(given, p) THEN Get(given, p) ELSE None
          /\ Keys(conversions') = Keys(given) \cup Required
          /\ \A k \in Keys(given) : Get(conversions', k) = Get(given, k)
          /\ \A k \in Keys(conversions') : k[1] # k[2] ]_vars

\* seeding has just kept the caller's ETH/USDC next to a pair it added as None
C22_Witness ==
    /\ pc = "resolve" /\ result = "none"
    /\ <<"ETH", "USDC">> \in Required
    /\ Get(conversions, <<"ETH", "USDC">>) = Two
    /\ \E p \in Required : ~Has(given, p) /\ IsNone(Get(conversions, p))

---------------------------------------------------------------------------
(* Properties of the account bindings of Invoice.__init__ *)

\* C23: after a successful construction every target currency is bound to an
\* account.
C23_EveryCurrencyHasAccount ==
    pc = "done" => \A c \in currencies : currencies_account[c] \notin {Absent, NoAccount}

\* the symbol of an account occurs twice in the accounts argument
HasDuplicate == \E i, j \in 1..Len(accounts) : i < j /\ accounts[i] = accounts[j]

\* C24: with two accounts of the same symbol, construction fails at the second
\* one: before any ratio is seeded or resolved and with no oracle query.
C24_DuplicateAccountFails ==
    /\ [](HasDuplicate => pc \in {"accounts", "duplicate"})
    /\ []((HasDuplicate /\ pc = "duplicate") =>
             /\ conversions = given
             /\ result = "none" /\ candidates = <<>>
             /\ \E i, j \in 1..Len(accounts) :
                   /\ i < j /\ accounts[i] = accounts[j]
                   /\ currencies_account[accounts[i]] = i
                   /\ \A l \in j..Len(accounts) : currencies_account[accounts[l]] # l)
    /\ [](pc = "duplicate" => HasDuplicate)

\* construction has failed on a second ETH account
C24_Witness ==
    /\ pc = "duplicate"
    /\ accounts = <<"ETH", "ETH">>
    /\ currencies_account["ETH"] = 1

---------------------------------------------------------------------------
(* Properties of LineItem.net *)

\* units * price of the LineItem net() was called on
Base == RatMul(RatInt(lines[1].units), lines[1].price)

\* C30: with base = units * price, a tax of None or 0 gives (base, 0, no tax);
\* 0 < t < 1 gives tax base * t and amount base + base * t, marked added;
\* t > 1 gives tax base - base / t and amount base, marked included; for base
\* 100, t = 5/100 gives 5 and 105 and t = 105/100 gives 100/21 and 100.
C30_LineItemNet ==
    (pc = "lineitem" /\ net # <<>>) =>
        LET t == lines[1].tax
            n == net[1]
        IN  /\ (IsNone(t) \/ t = Zero) =>
                  (n.amount = Base /\ n.taxes = Zero /\ n.taxinf = <<"no tax">>)
            /\ (~IsNone(t) /\ RatLess(Zero, t) /\ RatLess(t, One)) =>
                  /\ n.taxes = RatMul(Base, t)
                  /\ n.amount = RatAdd(Base, RatMul(Base, t))
                  /\ n.taxinf[2] = "% added"
            /\ (~IsNone(t) /\ RatLess(One, t)) =>
                  /\ n.taxes = RatSub(Base, RatDiv(Base, t))
                  /\ n.amount = Base
                  /\ n.taxinf[2] = "% incl."
            /\ (Base = RatInt(100) /\ t = <<1, 20>>) =>
                  (n.taxes = RatInt(5) /\ n.amount = RatInt(105))
            /\ (Base = RatInt(100) /\ t = <<21, 20>>) =>
                  (n.taxes = <<100, 21>> /\ n.amount = RatInt(100))

\* net() was called on a tax-inclusive LineItem of base 100
C30_Witness ==
    /\ pc = "lineitem" /\ net # <<>>
    /\ Base = RatInt(100)
    /\ lines[1].tax = <<21, 20>>
    /\ net[1].taxinf = <<RatInt(5), "% incl.">>

---------------------------------------------------------------------------
(* Properties of Invoice.__iter__ *)

\* the amount and the taxes of line k, rounded to the line's decimals
RoundedAmount(k) == RoundTo(Net(lines[k]).amount, LineDecimals(lines[k]))
RoundedTaxes(k) == RoundTo(Net(lines[k]).taxes, LineDecimals(lines[k]))

\* no line amount, line tax or conversion ratio is negative
NonNegative ==
    /\ \A k \in 1..Len(lines) :
          ~RatLess(RoundedAmount(k), Zero) /\ ~RatLess(RoundedTaxes(k), Zero)
    /\ \A k \in 1..Len(conversions) :
          IsNone(conversions[k].r) \/ ~RatLess(conversions[k].r, Zero)

\* the running total and tax of currency c before row k
TotBefore(k, c) == IF k = 1 THEN Zero ELSE rows[k - 1].tot[c]
TaxBefore(k, c) == IF k = 1 THEN Zero ELSE rows[k - 1].tax[c]

\* C25: iterating yields one row per line item, in line order, numbered by
\* position; with no negative amount, tax or ratio, every currency's running
\* total and running tax are at least those of the row before.
C25_RowPerLine ==
    pc = "constructed" =>
        /\ Len(rows) <= Len(lines)
        /\ \A k \in 1..Len(rows) : rows[k].i = k - 1 /\ rows[k].line = lines[k]
        /\ rowIter.state = "running" => rowIter.i = Len(rows)
        /\ rowIter.state = "done" => Len(rows) = Len(lines)
        /\ NonNegative =>
              \A k \in 1..Len(rows) : \A c \in currencies :
                  /\ ~RatLess(rows[k].tot[c], TotBefore(k, c))
                  /\ ~RatLess(rows[k].tax[c], TaxBefore(k, c))

\* a whole Invoice of non-negative lines was iterated and a total grew
C25_Witness ==
    /\ pc = "constructed" /\ rowIter.state = "done"
    /\ Len(rows) = 3
    /\ NonNegative
    /\ \E c \in currencies : RatLess(rows[2].tot[c], rows[3].tot[c])
    /\ \E c \in currencies : RatLess(rows[1].tax[c], rows[2].tax[c])

\* the ratio a line in symbol s is converted to currency c with
Rho(s, c) == IF s = c THEN One ELSE Get(conversions, <<s, c>>)

RECURSIVE TotalTo(_, _)
\* the contributions of lines 1..k to the total of currency c
TotalTo(k, c) ==
    IF k = 0 THEN Zero
    ELSE RatAdd(TotalTo(k - 1, c),
                RatMul(RoundedAmount(k), Rho(TokenSymbol(lines[k].currency), c)))

RECURSIVE TaxTo(_, _)
\* the contributions of lines 1..k to the tax of currency c
TaxTo(k, c) ==
    IF k = 0 THEN Zero
    ELSE RatAdd(TaxTo(k - 1, c),
                RatMul(RoundedTaxes(k), Rho(TokenSymbol(lines[k].currency), c)))

\* C26: the running total of a row for currency c is the sum, over the lines up
\* to and including it, of the line amount rounded to the line's decimals times
\* 1 or the resolved ratio from the line's symbol to c, with neither the
\* products nor the sum rounded; the running tax likewise from the rounded line
\* taxes; the last row holds the sums over all lines.
C26_RunningTotals ==
    pc = "constructed" =>
        /\ \A k \in 1..Len(rows) : \A c \in currencies :
              /\ rows[k].amount = RoundedAmount(k)
              /\ rows[k].taxes = RoundedTaxes(k)
              /\ rows[k].tot[c] = TotalTo(k, c)
              /\ rows[k].tax[c] = TaxTo(k, c)
        /\ (rowIter.state = "done" /\ lines # <<>>) =>
              \A c \in currencies :
                  /\ rows[Len(rows)].tot[c] = TotalTo(Len(lines), c)
                  /\ rows[Len(rows)].tax[c] = TaxTo(Len(lines), c)

\* 2 BTC (5/2 rounded to no decimals), then 100 BTC with 4.76 tax included, then
\* 105 USDC: 102 * 6 + 105 USDC in all, 102 BTC and 105 / 6 more
C26_Witness ==
    /\ pc = "constructed" /\ rowIter.state = "done"
    /\ currencies = {"BTC", "USDC"}
    /\ Len(rows) = 3
    /\ rows[1].amount = RatInt(2)
    /\ rows[2].taxes = <<119, 25>>
    /\ rows[3].tot["USDC"] = RatInt(717)
    /\ rows[3].tot["BTC"] = <<239, 2>>

\* C27: iterating, to the end or not, leaves the lines, the currencies, the
\* account bindings and the conversions as they were, runs no deduction and asks
\* no oracle; every row is computed with the ratios the Invoice held throughout.
C27_IterationReadsOnly ==
    [][pc = "constructed" =>
        /\ lines' = lines
        /\ currencies' = currencies
        /\ currencies_account' = currencies_account
        /\ accounts' = accounts
        /\ conversions' = conversions
        /\ result' = result /\ branch' = branch /\ report' = report
        /\ trues' = trues /\ candidates' = candidates /\ ci' = ci
        /\ pc' = pc
        /\ Len(rows') = Len(rows) + 1 =>
              LET r == rows'[Len(rows')] IN
              \A c \in currencies :
                  /\ r.tot[c] = RatAdd(TotBefore(Len(rows) + 1, c), RatMul(r.amount, Rho(r.symbol, c)))
                  /\ r.tax[c] = RatAdd(TaxBefore(Len(rows) + 1, c), RatMul(r.taxes, Rho(r.symbol, c)))
    ]_vars

\* an iteration was abandoned after a converted row, the Invoice as constructed
C27_Witness ==
    /\ pc = "constructed" /\ rowIter.state = "closed"
    /\ Len(rows) = 2 /\ Len(lines) = 3
    /\ conversions = ResolvedConversions
    /\ \E c \in currencies : rows[2].symbol # c /\ rows[2].tot[c] # rows[1].tot[c]

---------------------------------------------------------------------------
(* Properties of Invoice.pages *)

\* the rows of the Invoice, as one whole iteration yields them
InvoiceRows == AllRows(FreshFrame(currencies))

RECURSIVE Concat(_)
\* the rows of a sequence of pages, end to end
Concat(ps) == IF ps = <<>> THEN <<>> ELSE Head(ps) \o Concat(Tail(ps))

\* rows of a full page: a page is closed by the first row that brings it to the
\* number asked for, so it has at least one
PageSize(n) == IF n < 1 THEN 1 ELSE n

\* how many pages rs fills
PageCount(rs, n) == (Len(rs) + PageSize(n) - 1) \div PageSize(n)

\* page k, zero-based, of rs in pages of n rows
PageOf(rs, n, k) ==
    SubSeq(rs, k * PageSize(n) + 1,
           IF (k + 1) * PageSize(n) < Len(rs) THEN (k + 1) * PageSize(n) ELSE Len(rs))

\* s is what t starts with
IsPrefix(s, t) == Len(s) <= Len(t) /\ \A k \in 1..Len(s) : s[k] = t[k]

\* C28: with no filter and n >= 1 rows per page, the pages end to end are the
\* rows of the Invoice; every page but the last has n rows and the last has 1
\* to n; no page is empty, so no lines give no page and a multiple of n rows
\* gives no empty page at the end.
C28_Pagination ==
    (pc = "constructed" /\ pager # NoFrame /\ pageArgs.page = NoFilter
        /\ pageArgs.rows >= 1) =>
        LET n == pageArgs.rows IN
        /\ \A k \in 1..Len(yielded) : Len(yielded[k]) \in 1..n
        /\ \A k \in 1..(Len(yielded) - 1) : Len(yielded[k]) = n
        /\ IsPrefix(Concat(yielded), InvoiceRows)
        /\ pager.state \in {"last", "done"} =>
              /\ Concat(yielded) = InvoiceRows
              /\ Len(InvoiceRows) = Len(lines)
              /\ Len(yielded) = PageCount(InvoiceRows, n)
              /\ \A k \in 1..Len(yielded) : yielded[k] = PageOf(InvoiceRows, n, k - 1)
        /\ (pager.state = "done" /\ lines = <<>>) => yielded = <<>>

\* three lines in pages of two: a full page and a last page of one row
C28_Witness ==
    /\ pc = "constructed" /\ pager # NoFrame /\ pager.state = "done"
    /\ pageArgs.page = NoFilter /\ pageArgs.rows = 2
    /\ Len(lines) = 3
    /\ Len(yielded) = 2 /\ Len(yielded[1]) = 2 /\ Len(yielded[2]) = 1

\* page number k is one the caller's filter asks for
Selected(k) ==
    \/ pageArgs.page.kind = "none"
    \/ pageArgs.page.kind = "index" /\ k = pageArgs.page.index
    \/ pageArgs.page.kind = "contains" /\ k \in pageArgs.page.among

RECURSIVE SelectedFrom(_)
\* the selected pages of the unfiltered pagination, from page k on
SelectedFrom(k) ==
    IF k >= PageCount(InvoiceRows, pageArgs.rows) THEN <<>>
    ELSE (IF Selected(k) THEN <<PageOf(InvoiceRows, pageArgs.rows, k)>> ELSE <<>>)
         \o SelectedFrom(k + 1)

\* C29: with a page filter, a zero-based page number or a membership test, the
\* pages yielded are the pages of the unfiltered pagination whose number the
\* filter matches, in order and row for row, running totals and taxes included.
C29_FilteredPages ==
    (pc = "constructed" /\ pager # NoFrame) =>
        /\ IsPrefix(yielded, SelectedFrom(0))
        /\ pager.state = "done" => yielded = SelectedFrom(0)

\* pages 0 and 2 of three one-row pages: page 1 is left out and its row counted
C29_Witness ==
    /\ pc = "constructed" /\ pager # NoFrame /\ pager.state = "done"
    /\ pageArgs.page.kind = "contains" /\ pageArgs.page.among = {0, 2}
    /\ pageArgs.rows = 1
    /\ Len(lines) = 3 /\ Len(yielded) = 2
    /\ yielded[2][1].i = 2
    /\ \E c \in currencies :
          yielded[2][1].tot[c] # RatAdd(yielded[1][1].tot[c],
                                        RatMul(yielded[2][1].amount,
                                               Rho(yielded[2][1].symbol, c)))

\* C31: net() gives the no-tax result, taxes 0 and 'no tax', only for a tax that
\* is None or 0, never for a tax of exactly 1.
C31_OneIsNotNoTax ==
    (pc = "lineitem" /\ net # <<>> /\ net[1].taxinf = <<"no tax">>) =>
        (IsNone(lines[1].tax) \/ lines[1].tax = Zero)

---------------------------------------------------------------------------
(* Properties of an Invoice constructed and then iterated *)

\* the deduction is at a fixed point: it last returned False or the message
Settled == pc \in {"query", "done", "raised", "constructed"}

\* a currency known to be worth nothing in the quote currency
ZeroValued(x) == Get(conversions, <<x, QuoteSymbol>>) = Zero

\* a currency with a known worth that is not zero, or the quote currency
Valued(x) ==
    \/ x = QuoteSymbol
    \/ Truthy(Get(conversions, <<x, QuoteSymbol>>))
    \/ Truthy(Get(conversions, <<QuoteSymbol, x>>))

\* every known ratio of c with x in it says x is worth nothing: (x,y) is 0 and
\* (y,x) is not a non-zero ratio
WorthNothing(c, x) ==
    \A k \in 1..Len(c) :
        /\ (c[k].k[1] = x /\ ~IsNone(c[k].r)) => c[k].r = Zero
        /\ c[k].k[2] = x => ~Truthy(c[k].r)

\* the candidate slots the unknown pairs ps give: each symbol but ETH
CandidateSlots(ps) ==
    2 * Cardinality(ps) - Cardinality({q \in ps : QuoteSymbol \in {q[1], q[2]}})

\* a pair of ratio 0 is counted with the resolved, not the unresolved
ZeroIsKnown ==
    /\ \A k \in 1..Len(conversions) :
          conversions[k].r = Zero =>
              /\ conversions[k].k \notin Unknowns(conversions)
              /\ pc \in {"query", "raised"} => conversions[k].k \notin report[1]
    /\ pc = "query" => Len(candidates) = CandidateSlots(Unknowns(conversions))
    /\ pc \in {"done", "constructed"} => Unknowns(conversions) = {}

---------------------------------------------------------------------------
(* Properties of Invoices sharing a caller's mapping *)

\* C33: constructing an Invoice leaves the mapping the caller passed as it was,
\* and constructing a second Invoice from the same mapping leaves the ratios of
\* the first as they were when its construction ended.
C33_MutationIsLocal ==
    /\ given # <<>> => CallerMapping = given
    /\ seen # <<>> => conversions = seen[1]

---------------------------------------------------------------------------
(* Properties of two generators over one Invoice *)

\* rs is what one iteration from the start yields, as far as it goes
FromScratch(rs) ==
    /\ Len(rs) <= Len(lines)
    /\ \A k \in 1..Len(rs) :
          /\ rs[k].i = k - 1
          /\ rs[k].line = lines[k]
          /\ rs[k].amount = RoundedAmount(k)
          /\ rs[k].taxes = RoundedTaxes(k)
          /\ \A c \in currencies :
                rs[k].tot[c] = TotalTo(k, c) /\ rs[k].tax[c] = TaxTo(k, c)

\* C34: every iteration starts its accumulators at zero: iterating again after
\* an iteration, or advancing two generators over the Invoice in any
\* interleaving, gives each the rows of a single iteration from the start.
C34_IterationsIndependent ==
    pc = "constructed" =>
        /\ FromScratch(rows)
        /\ FromScratch(rows2)
        /\ \A k \in 1..Len(rows) : k <= Len(rows2) => rows[k] = rows2[k]
        /\ rowIter.state = "done" => Len(rows) = Len(lines)
        /\ rowIter2.state = "done" => Len(rows2) = Len(lines)

\* the second generator has finished three lines while the first, started
\* before it, is still at its second row
C34_Witness ==
    /\ pc = "constructed"
    /\ Len(lines) = 3
    /\ rowIter2.state = "done" /\ Len(rows2) = 3
    /\ rowIter.state = "running" /\ Len(rows) = 2
    /\ \E c \in currencies : rows2[3].tot[c] # rows[2].tot[c]

---------------------------------------------------------------------------
(* Properties of Invoice.tables *)

\* C35: on every page after the first, each currency's sub-total and sub-tax
\* are what accrued on that page, the running value at its last row less that
\* at the last row of the page before; on the first page they are the running
\* values at its last row; the total table shows the running values at the
\* page's last row. All are rounded to the currency's display decimals.
C35_PageSubtotals ==
    \A p \in 1..Len(tables) : \A c \in currencies :
        LET here == LastRow(tables[p].page) IN
        /\ tables[p].total[c].total = RoundTo(here.tot[c], Deci(c))
        /\ tables[p].total[c].taxes = RoundTo(here.tax[c], Deci(c))
        /\ p = 1 =>
              /\ tables[p].sub[c].total = RoundTo(here.tot[c], Deci(c))
              /\ tables[p].sub[c].taxes = RoundTo(here.tax[c], Deci(c))
        /\ p > 1 =>
              LET before == LastRow(tables[p - 1].page) IN
              /\ tables[p].sub[c].total = RoundTo(RatSub(here.tot[c], before.tot[c]), Deci(c))
              /\ tables[p].sub[c].taxes = RoundTo(RatSub(here.tax[c], before.tax[c]), Deci(c))

---------------------------------------------------------------------------
(* Properties of Invoice.headers *)

\* where a column name stands in the headers
ColumnsOf(h) == {j \in 1..Len(Headers(currencies)) : Headers(currencies)[j] = h}

\* C36: every row has as many fields as headers() has names: thirteen fixed
\* fields, then one running total per target currency, then one running tax
\* per target currency, both in sorted symbol order; so each currency has
\* exactly one '_Total' and one '_Taxes' column, and the row's field in that
\* column is that currency's running total, respectively running tax.
C36_RowsMatchHeaders ==
    \A k \in 1..Len(rows) :
        LET t == RowTuple(rows[k], currencies)
            h == Headers(currencies)
            n == Cardinality(currencies)
        IN  /\ Len(t) = Len(h)
            /\ Len(h) = 13 + 2 * n
            /\ \A j \in 1..13 : h[j] = FixedHeaders[j]
            /\ \A j \in 1..n :
                  /\ h[13 + j][1] = "_Total"
                  /\ h[13 + n + j][1] = "_Taxes"
                  /\ h[13 + j][2] = h[13 + n + j][2]
                  /\ h[13 + j][2] \in currencies
            /\ \A i, j \in 1..n : \A a, b \in 1..Len(Alphabet) :
                  (i < j /\ Alphabet[a] = h[13 + i][2] /\ Alphabet[b] = h[13 + j][2]) => a < b
            /\ \A c \in currencies :
                  /\ Cardinality(ColumnsOf(Header("_Total", c))) = 1
                  /\ Cardinality(ColumnsOf(Header("_Taxes", c))) = 1
                  /\ \A j \in ColumnsOf(Header("_Total", c)) : t[j] = TotalTo(k, c)
                  /\ \A j \in ColumnsOf(Header("_Taxes", c)) : t[j] = TaxTo(k, c)

\* two rows of an Invoice in three currencies whose running values differ
C36_Witness ==
    /\ pc = "constructed"
    /\ currencies = {"ETH", "USDC", "WBTC"}
    /\ Len(rows) >= 2
    /\ rows[2].tot["USDC"] # rows[2].tot["WBTC"]
    /\ rows[2].tax["USDC"] # rows[2].tax["WBTC"]
    /\ Len(RowTuple(rows[2], currencies)) = 19

---------------------------------------------------------------------------
(* Properties of what one call of conversions_remaining writes *)

\* C37: a call of conversions_remaining removes no key, leaves every ratio
\* that is known (0 included) at its value, so turns no known pair back to
\* unknown, and brings in no symbol that is in no key already: only pairs that
\* are unknown or absent gain a value.
C37_KnownRatiosStable ==
    [][ /\ \A i \in 1..Len(conversions) :
              /\ Has(conversions', conversions[i].k)
              /\ ~IsNone(conversions[i].r) =>
                    Get(conversions', conversions[i].k) = conversions[i].r
        /\ SymbolsOf(conversions') \subseteq SymbolsOf(conversions)
        /\ \A j \in 1..Len(conversions') :
              (Has(conversions, conversions'[j].k)
                 /\ Get(conversions, conversions'[j].k) # conversions'[j].r)
                 => IsNone(Get(conversions, conversions'[j].k))
      ]_vars

\* a call has given an unknown pair and an absent pair their values next to a
\* pair known to be 0 and one known to be non-zero
C37_Witness ==
    /\ pc = "caller"
    /\ result = "True"
    /\ \E i \in 1..Len(given) : given[i].r = Zero
    /\ \E i \in 1..Len(given) : Truthy(given[i].r)
    /\ \E i \in 1..Len(given) : IsNone(given[i].r) /\ Known(conversions, given[i].k)
    /\ Len(conversions) > Len(given)

\* C38: the two-hop branch is never executed: whenever the single-hop part of
\* a call has made no change, no unknown pair (a,b) has a non-zero known ratio
\* holding a and another holding b that share a symbol.
C38_TwoHopNeverRuns ==
    /\ branch # "twohop"
    /\ result \in {"False", "msg", "RuntimeError"} => TwoHopHits(conversions) = {}

---------------------------------------------------------------------------
(* Properties of the oracle's quotes *)

\* C39: inserting an oracle quote replaces no ratio that is already known: a
\* pair that the caller supplied or that deduction produced keeps its value,
\* also when the token quoted has another symbol than the candidate and only
\* the token's pair with the quote currency was unknown.
C39_QuoteKeepsKnown ==
    [][ pc = "query" =>
          \A i \in 1..Len(conversions) :
              ~IsNone(conversions[i].r) =>
                  Get(conversions', conversions[i].k) = conversions[i].r
      ]_vars

---------------------------------------------------------------------------
(* Properties of the ratios that iteration reads *)

\* C40: once an Invoice is constructed, for every line the symbol of the token
\* that iteration looks up for the line's currency, paired with every target
\* currency other than it, is a key of the conversions with a known ratio, so
\* no row raises on a missing or unknown ratio.
C40_IterationFindsRatios ==
    pc = "constructed" =>
        /\ \A k \in 1..Len(lines) : \A c \in currencies :
              TokenSymbol(lines[k].currency) # c =>
                  Known(conversions, <<TokenSymbol(lines[k].currency), c>>)
        /\ rowIter.state # "raised"

===========================================================================
